---- MODULE Spec2Model ----
(***************************************************************************)
(* Object-storage gateway: the service registry (a consistent-hash ring    *)
(* plus a concurrent metadata map), the Docker-event driven registrar that *)
(* reconciles the registry with the running MinIO containers, and the      *)
(* gateway's retry-wrapped resolution of an object id to an instance.      *)
(*                                                                         *)
(* Identities (IP addresses), object ids, credentials and hash values are  *)
(* small integers.  The 64-bit hash of the ring library is abstracted by   *)
(* VNodeHash / KeyHash below: every virtual node gets a ring position of   *)
(* its own (no two virtual nodes collide), the positions of different      *)
(* identities interleave, and object ids hash onto, between, before and    *)
(* after the virtual nodes.                                                *)
(***************************************************************************)
EXTENDS Integers, Sequences, FiniteSets, TLC

\* ---------------------------------------------------------------- bounds
NumNodes == 3
Replicas == 2
NumKeys == 4
NumCreds == 2
NumCallers == 2
MaxCalls == 3
NumContainers == 2
MaxChanges == 3
MaxFaults == 1
LoopFaults == 2
MaxQueue == 2
NumBuckets == 2
NumValues == 2
NumRequests == 2
MaxRequests == 3
MaxBackendFaults == 1

\* retry.Attempts(3)
MaxAttempts == 3

\* validateID: len(id) > 32
MaxIDLen == 32

Nodes == 1..NumNodes
Keys == 0..(NumKeys - 1)
Creds == 1..NumCreds

HashSpace == 2 * NumNodes * Replicas

\* hashFunc(nodeRepr + strconv.Itoa(i)): the ring position of replica i of a node
VNodeHash(node, i) == 2 * (i * NumNodes + ((node - 1 + i) % NumNodes)) + 1

\* hashFunc(repr(v)): the ring position an object id hashes to
KeyHash(key) == (7 * key + 3) % HashSpace

\* hashFunc(innerRepr(v)): the tie-break among identities sharing one position
InnerHash(key) == (5 * key + 1) % HashSpace

\* --------------------------------------------------------------- metadata
\* registry.ServiceMetadata; 0 stands for the empty string
ServiceMetadata(name, ip, access, secret) ==
    [Name |-> name, IPAddress |-> ip, AccessKey |-> access, SecretKey |-> secret]

EmptyService == ServiceMetadata(0, 0, 0, 0)

\* the services the registry's direct callers register: identity 1 with any
\* access key, the others with the first one
AllMetadata ==
    { ServiceMetadata(n, n, a, 1) : n \in {1}, a \in Creds }
        \cup { ServiceMetadata(n, n, 1, 1) : n \in Nodes }

\* ------------------------------------------------------------------ errors
\* Go error values: the dynamic type, the message and the wrapped error
NoErr == [type |-> "nil", msg |-> "", wraps |-> "nil"]

\* fmt.Errorf without %w yields a plain *errors.errorString
ErrCouldNotMatch ==
    [type |-> "errorString", msg |-> "could not match service for key", wraps |-> "nil"]

ErrCouldNotFind ==
    [type |-> "errorString", msg |-> "could not find service with IP", wraps |-> "nil"]

\* errors.Is(err, gateway.NotFoundError{}): the error or the one it wraps
ErrorsIsNotFound(err) == err.type = "NotFoundError" \/ err.wraps = "NotFoundError"

\* ------------------------------------------------- hash.ConsistentHash
SeqToSet(s) == { s[i] : i \in DOMAIN s }

RECURSIVE InsertSorted(_, _)
InsertSorted(s, x) ==
    IF s = <<>> THEN <<x>>
    ELSE IF x < Head(s) THEN <<x>> \o s
    ELSE <<Head(s)>> \o InsertSorted(Tail(s), x)

\* sort.Slice(h.keys, less)
RECURSIVE SortKeys(_)
SortKeys(s) == IF s = <<>> THEN <<>> ELSE InsertSorted(SortKeys(Tail(s)), Head(s))

\* sort.Search(len(keys), func(i) { keys[i] >= hash }), 1-based; Len+1 when none
SearchKeys(keys, hash) ==
    IF \E i \in DOMAIN keys : keys[i] >= hash
    THEN CHOOSE i \in DOMAIN keys :
            /\ keys[i] >= hash
            /\ \A j \in DOMAIN keys : keys[j] >= hash => i <= j
    ELSE Len(keys) + 1

RemoveAt(s, i) == SubSeq(s, 1, i - 1) \o SubSeq(s, i + 1, Len(s))

HashPoints == 0..(HashSpace - 1)

\* hash.NewConsistentHash(); ring[p] = <<>> stands for "p is no key of the map"
NewConsistentHash == [keys |-> <<>>, ring |-> [p \in HashPoints |-> <<>>], nodes |-> {}]

RingHas(h, p) == h.ring[p] # <<>>

RingAt(h, p) == h.ring[p]

\* len(h.ring) == 0
RingEmpty(h) == \A p \in HashPoints : h.ring[p] = <<>>

SetRing(ring, p, list) == [ring EXCEPT ![p] = list]

DelRing(ring, p) == [ring EXCEPT ![p] = <<>>]

\* removeRingNode(hash, nodeRepr)
RemoveRingNode(ring, p, node) ==
    IF ring[p] # <<>>
    THEN LET kept == SelectSeq(ring[p], LAMBDA x : x # node)
         IN  IF Len(kept) > 0 THEN SetRing(ring, p, kept) ELSE DelRing(ring, p)
    ELSE ring

\* one iteration of Remove's loop over the replicas
RemoveReplica(h, node, i) ==
    LET p == VNodeHash(node, i)
        idx == SearchKeys(h.keys, p)
        keys1 == IF idx <= Len(h.keys) /\ h.keys[idx] = p
                 THEN RemoveAt(h.keys, idx) ELSE h.keys
    IN  [h EXCEPT !.keys = keys1, !.ring = RemoveRingNode(h.ring, p, node)]

RECURSIVE RemoveReplicas(_, _, _)
RemoveReplicas(h, node, i) ==
    IF i >= Replicas THEN h
    ELSE RemoveReplicas(RemoveReplica(h, node, i), node, i + 1)

\* ConsistentHash.Remove(node), one critical section
HashRemove(h, node) ==
    IF node \notin h.nodes THEN h
    ELSE LET h1 == RemoveReplicas(h, node, 0)
         IN  [h1 EXCEPT !.nodes = h1.nodes \ {node}]

RECURSIVE AppendReplicas(_, _, _)
AppendReplicas(h, node, i) ==
    IF i >= Replicas THEN h
    ELSE LET p == VNodeHash(node, i)
         IN  AppendReplicas(
                [h EXCEPT !.keys = Append(h.keys, p),
                          !.ring = SetRing(h.ring, p, Append(RingAt(h, p), node))],
                node, i + 1)

\* the critical section of AddWithReplicas after its call of Remove:
\* addNode, append every replica, sort the keys
HashAddLockedNoSort(h, node) ==
    AppendReplicas([h EXCEPT !.nodes = h.nodes \cup {node}], node, 0)

HashAddLocked(h, node) ==
    LET h1 == AppendReplicas([h EXCEPT !.nodes = h.nodes \cup {node}], node, 0)
    IN  [h1 EXCEPT !.keys = SortKeys(h1.keys)]

\* ConsistentHash.Add(node) run without interleaving: Remove, then the add
HashAddNoRemove(h, node) == HashAddLocked(h, node)

HashAdd(h, node) == HashAddLocked(HashRemove(h, node), node)

NoNode == 0

\* ConsistentHash.Get(key): the identity owning the key, NoNode when !ok
\* (HashGetModN: the position taken modulo the number of keys, no successor search)
HashGetModN(h, key) ==
    IF RingEmpty(h) THEN NoNode
    ELSE RingAt(h, h.keys[(KeyHash(key) % Len(h.keys)) + 1])[1]

HashGet(h, key) ==
    IF RingEmpty(h) THEN NoNode
    ELSE LET idx == ((SearchKeys(h.keys, KeyHash(key)) - 1) % Len(h.keys)) + 1
             owners == RingAt(h, h.keys[idx])
         IN  CASE Len(owners) = 0 -> NoNode
               [] Len(owners) = 1 -> owners[1]
               [] OTHER -> owners[(InnerHash(key) % Len(owners)) + 1]

\* the identities with at least one virtual node on the ring
RingIdentities(h) == UNION { SeqToSet(h.ring[p]) : p \in HashPoints }

\* ------------------------------------------------------- cmap.ConcurrentMap
\* the value of a key the map does not hold
Absent == [Name |-> -1, IPAddress |-> -1, AccessKey |-> -1, SecretKey |-> -1]

\* cmap.New[ServiceMetadata]()
NewMap == [ip \in Nodes |-> Absent]

MapSetLost(m, k, v) == m

MapSet(m, k, v) == [m EXCEPT ![k] = v]

MapRemoveKeeps(m, k) == m

MapRemove(m, k) == [m EXCEPT ![k] = Absent]

MapHas(m, k) == k \in Nodes /\ m[k] # Absent

MapKeys(m) == { k \in Nodes : m[k] # Absent }

\* ------------------------------------------------------------------ state
VARIABLES
    hash,        \* Registry.hash: the consistent-hash ring
    instances,   \* Registry.instances: IP address -> ServiceMetadata
    lastMatch,   \* the latest completed MatchService call of the API caller
    lastCall,    \* the latest completed Register/Deregister call of the API caller
    effect,      \* what that call did to the registry
    call,        \* per writer: the RegisterService/DeregisterService call in progress
    ncalls,      \* the number of calls the concurrent callers have started
    ctr,         \* Docker: per container its status and configuration
    queue,       \* the open event subscription: pending messages, then its error
    connected,   \* whether the daemon still feeds the open subscription
    cancelled,   \* ctx.Done() is closed
    changes,     \* the number of Docker-side changes so far
    faults,      \* the failures Docker may still inject: of API calls, of the stream
    wpc,         \* where ListenForDockerEvents is
    after,       \* where refreshInstances returns to
    listed,      \* refreshInstances: the containers still to inspect
    available,   \* refreshInstances: availableInstances
    toRegister,  \* diffAndUpdateInstances: the entries of newSet to add
    toDeregister, \* diffAndUpdateInstances: the entries of currentSet to remove
    pass,        \* the latest refreshInstances pass as observed
    handled,     \* what handleDockerEvent did with the latest event of the open subscription
    rd,          \* getMatchingInstance: the gateway's resolve in progress
    ms,          \* a MatchService call in progress, and the registrar calls it overlaps
    minio,       \* per MinIO node: its buckets and its objects
    req,         \* per HTTP request in progress: where its handler is, and its locals
    lastPut,     \* per bucket and id: the latest object write a node accepted
    bfaults,     \* the failures the backends and clients may still inject
    nreq         \* the number of HTTP requests started

regVars == <<hash, instances>>

apiVars == <<lastMatch, lastCall, effect>>

envVars == <<ctr, queue, connected, cancelled, changes, faults>>

storeVars == <<minio, req, lastPut, bfaults, nreq>>

gwVars == <<ms, minio, req, lastPut, bfaults, nreq>>

watchVars == <<wpc, after, listed, available, toRegister, toDeregister, pass, handled>>

vars == <<hash, instances, lastMatch, lastCall, effect, call, ncalls,
          ctr, queue, connected, cancelled, changes, faults,
          wpc, after, listed, available, toRegister, toDeregister, pass, handled, rd,
          ms, minio, req, lastPut, bfaults, nreq>>

\* ------------------------------------------------------ registry.Registry
\* a MatchService return value
MatchResult(service, err) == [service |-> service, err |-> err]

\* MatchService after hash.Get answered !ok
MatchNoOwner == MatchResult(EmptyService, ErrCouldNotMatch)

\* MatchService after hash.Get answered serviceIP: the instances.Get and the return
MatchLookupAny(m, serviceIP) ==
    IF MapKeys(m) # {}
    THEN MatchResult(m[CHOOSE k \in MapKeys(m) : TRUE], NoErr)
    ELSE MatchResult(EmptyService, ErrCouldNotFind)

MatchLookup(m, serviceIP) ==
    IF MapHas(m, serviceIP)
    THEN MatchResult(m[serviceIP], NoErr)
    ELSE MatchResult(EmptyService, ErrCouldNotFind)

\* MatchService(key) run without interleaving
MatchService(h, m, key) ==
    LET serviceIP == HashGet(h, key)
    IN  IF serviceIP = NoNode THEN MatchNoOwner ELSE MatchLookup(m, serviceIP)

\* RegisterService(service) run without interleaving: the map, then the ring
RegisterServiceHash(h, service) == HashAdd(h, service.IPAddress)

RegisterServiceMap(m, service) == MapSet(m, service.IPAddress, service)

\* DeregisterService(ipAddress) run without interleaving: the map, then the ring
DeregisterServiceKeepRing(h, ipAddress) == h

DeregisterServiceHash(h, ipAddress) == HashRemove(h, ipAddress)

DeregisterServiceMap(m, ipAddress) == MapRemove(m, ipAddress)

\* GetAllServices(): the values of the map
GetAllServices(m) == { m[k] : k \in MapKeys(m) }

\* NewRegistry(hash.NewConsistentHash())
InitRegistry ==
    /\ hash = NewConsistentHash
    /\ instances = NewMap

\* ------------------------------------------ what a direct caller has observed
NoMatch == [key |-> -1, res |-> MatchNoOwner, members |-> NewMap]

NoCall == [op |-> "none", service |-> EmptyService]

NoEffect == [repeated |-> FALSE, absent |-> FALSE, unchanged |-> TRUE]

InitApiVars ==
    /\ lastMatch = NoMatch
    /\ lastCall = NoCall
    /\ effect = NoEffect

\* ------------------------------ RegisterService / DeregisterService, stepwise
\* Writer 0 is the registrar's goroutine; the others are further callers.
Registrar == 0

Callers == 1..NumCallers

Writers == {Registrar} \cup Callers

Idle == [pc |-> "idle", service |-> EmptyService]

CallIdle(w) == call[w].pc = "idle"

\* entering RegisterService(service)
EnterRegister(w, service) == [call EXCEPT ![w] = [pc |-> "reg_set", service |-> service]]

\* entering DeregisterService(ipAddress)
EnterDeregister(w, ipAddress) ==
    [call EXCEPT ![w] = [pc |-> "dereg_map",
                         service |-> ServiceMetadata(0, ipAddress, 0, 0)]]

\* r.instances.Set(service.IPAddress, service)
RegSet(w) ==
    /\ call[w].pc = "reg_set"
    /\ instances' = MapSet(instances, call[w].service.IPAddress, call[w].service)
    /\ call' = [call EXCEPT ![w].pc = "reg_remove"]
    /\ UNCHANGED <<hash, apiVars, ncalls, envVars, watchVars, rd, gwVars>>

\* r.hash.Add: its leading h.Remove(node), a critical section of its own
RegRingRemove(w) ==
    /\ call[w].pc = "reg_remove"
    /\ hash' = HashRemove(hash, call[w].service.IPAddress)
    /\ call' = [call EXCEPT ![w].pc = "reg_add"]
    /\ UNCHANGED <<instances, apiVars, ncalls, envVars, watchVars, rd, gwVars>>

\* r.hash.Add: the locked insertion of the replicas; RegisterService returns
RegRingAdd(w) ==
    /\ call[w].pc = "reg_add"
    /\ hash' = HashAddLocked(hash, call[w].service.IPAddress)
    /\ call' = [call EXCEPT ![w] = Idle]
    /\ UNCHANGED <<instances, apiVars, ncalls, envVars, watchVars, rd, gwVars>>

\* r.instances.Remove(ipAddress)
DeregMapRemove(w) ==
    /\ call[w].pc = "dereg_map"
    /\ instances' = MapRemove(instances, call[w].service.IPAddress)
    /\ call' = [call EXCEPT ![w].pc = "dereg_ring"]
    /\ UNCHANGED <<hash, apiVars, ncalls, envVars, watchVars, rd, gwVars>>

\* r.hash.Remove(ipAddress); DeregisterService returns
DeregRingRemove(w) ==
    /\ call[w].pc = "dereg_ring"
    /\ hash' = HashRemove(hash, call[w].service.IPAddress)
    /\ call' = [call EXCEPT ![w] = Idle]
    /\ UNCHANGED <<instances, apiVars, ncalls, envVars, watchVars, rd, gwVars>>

InitCalls ==
    /\ call = [w \in Writers |-> Idle]
    /\ ncalls = 0

\* no resolve has been started
NoResolve ==
    [pc |-> "idle", key |-> -1, serviceIP |-> NoNode, instance |-> EmptyService,
     err |-> NoErr, tries |-> <<>>, seen |-> <<>>]

InitResolve == rd = NoResolve

\* no MatchService call of its own is in progress
NoMatchCall ==
    [pc |-> "idle", key |-> -1, serviceIP |-> NoNode, res |-> MatchNoOwner,
     ringEmpty |-> FALSE, entry |-> Absent,
     overlap |-> [reg |-> FALSE, dereg |-> {}]]

InitMatchCall == ms = NoMatchCall

\* -------------------------------------------------- HTTP ids and validateID
\* characters of an id: 'a', 'Z', '0', '-', ' ', newline
Letters == {1, 2}

Digits == {3}

Dash == 4

Space == 5

Newline == 6

Rep(c, n) == [i \in 1..n |-> c]

\* the ids requests carry: short ones, the longest accepted one, one byte more,
\* the empty one, and ids with a dash, a blank or a newline at either end
TestIDs ==
    { <<>>, <<1>>, <<3, 2>>, Rep(1, MaxIDLen - 1) \o <<3>>, Rep(2, MaxIDLen + 1),
      <<Dash>>, <<1, Space>>, <<Space, 1>>, <<1, Dash, 3>>, <<1, Newline>>,
      Rep(1, MaxIDLen - 1) \o <<Dash>> }

\* regexp.MustCompile(`^[a-zA-Z0-9]+$`).MatchString
IsAlphanumeric(id) ==
    /\ Len(id) >= 1
    /\ \A i \in DOMAIN id : id[i] \in Letters \cup Digits

ErrTooLong == [type |-> "errorString", msg |-> "id is too long", wraps |-> "nil"]

ErrInvalidChars ==
    [type |-> "errorString", msg |-> "id contains invalid characters", wraps |-> "nil"]

\* validateID(id)
ValidateIDShort(id) ==
    IF Len(id) >= MaxIDLen THEN ErrTooLong
    ELSE IF ~IsAlphanumeric(id) THEN ErrInvalidChars
    ELSE NoErr

ValidateID(id) ==
    IF Len(id) > MaxIDLen THEN ErrTooLong
    ELSE IF ~IsAlphanumeric(id) THEN ErrInvalidChars
    ELSE NoErr

\* the ids HTTP requests carry
RequestIDs ==
    { <<>>, <<1>>, Rep(1, MaxIDLen - 1) \o <<3>>, Rep(2, MaxIDLen + 1),
      <<1, Dash, 3>>, <<1, Space>> }

ValidIDs == { id \in RequestIDs : ValidateID(id) = NoErr }

RECURSIVE SumChars(_)
SumChars(id) == IF id = <<>> THEN 0 ELSE Head(id) + SumChars(Tail(id))

\* the object id as the key MatchService hashes
IdKey(id) == SumChars(id) % NumKeys

\* ------------------------------------------------------------ MinIO nodes
Buckets == 1..NumBuckets

Values == 1..NumValues

NoObject == 0

StoreKeys == Buckets \X ValidIDs

EmptyNode == [buckets |-> {}, objects |-> [k \in StoreKeys |-> NoObject]]

\* gateway.NotFoundError{}
NotFoundError == [type |-> "NotFoundError", msg |-> "object not found", wraps |-> "nil"]

\* fmt.Errorf("...: %w", err) in GetObject and PutObject
WrapError(msg, err) == [type |-> "wrapError", msg |-> msg, wraps |-> err.type]

\* minio.ErrorResponse values and other I/O errors of the client
ErrorResponse(status, code) ==
    [type |-> "minio.ErrorResponse", msg |-> code, wraps |-> "nil", status |-> status]

ErrIO == [type |-> "net.OpError", msg |-> "i/o failure", wraps |-> "nil", status |-> 0]

NoRespErr == [type |-> "nil", msg |-> "", wraps |-> "nil", status |-> 0]

\* minioInstance.BucketExists
BucketExists(m, node, bucket) == bucket \in m[node].buckets

\* minioInstance.MakeBucket: the node refuses a bucket it already has
MakeBucket(m, node, bucket) ==
    IF bucket \in m[node].buckets
    THEN [minio |-> m, err |-> ErrorResponse(409, "BucketAlreadyOwnedByYou")]
    ELSE [minio |-> [m EXCEPT ![node].buckets = @ \cup {bucket}], err |-> NoRespErr]

\* minioInstance.PutObject
StoreObject(m, node, bucket, id, data) ==
    IF bucket \notin m[node].buckets
    THEN [minio |-> m, err |-> ErrorResponse(404, "NoSuchBucket")]
    ELSE [minio |-> [m EXCEPT ![node].objects[<<bucket, id>>] = data], err |-> NoRespErr]

\* minioInstance.GetObject and io.ReadAll(object)
ReadObjectFirstBucket(m, node, bucket, id) ==
    IF m[node].buckets = {}
    THEN [data |-> NoObject, err |-> ErrorResponse(404, "NoSuchBucket")]
    ELSE IF m[node].objects[<<1, id>>] = NoObject
    THEN [data |-> NoObject, err |-> ErrorResponse(404, "NoSuchKey")]
    ELSE [data |-> m[node].objects[<<1, id>>], err |-> NoRespErr]

ReadObject(m, node, bucket, id) ==
    IF bucket \notin m[node].buckets
    THEN [data |-> NoObject, err |-> ErrorResponse(404, "NoSuchBucket")]
    ELSE IF m[node].objects[<<bucket, id>>] = NoObject
    THEN [data |-> NoObject, err |-> ErrorResponse(404, "NoSuchKey")]
    ELSE [data |-> m[node].objects[<<bucket, id>>], err |-> NoRespErr]

\* -------------------------------------------------------- HTTP requests
Requests == 1..NumRequests

NoRequest ==
    [pc |-> "idle", method |-> "none", id |-> <<>>, bucket |-> 0, body |-> NoObject,
     node |-> NoNode, exists |-> FALSE, err |-> NoErr, resp |-> NoRespErr,
     data |-> NoObject, status |-> 0,
     calls |-> [validate |-> 0, storage |-> 0, resolve |-> 0, backend |-> <<>>],
     faulted |-> FALSE]

NoPut == [data |-> NoObject, node |-> NoNode]

\* empty nodes, no request in progress
InitObjects ==
    /\ minio = [n \in Nodes |-> EmptyNode]
    /\ req = [r \in Requests |-> NoRequest]
    /\ lastPut = [k \in StoreKeys |-> NoPut]
    /\ nreq = 0

InitStore ==
    /\ InitObjects
    /\ bfaults = 0

\* ------------------------------------------------------------------ Docker
Containers == 1..NumContainers

AbsentCtr == [status |-> "absent", ip |-> 0, access |-> 0, secret |-> 0]

\* the configurations a container can be created with: address c and each access
\* key, or one of IP address, MINIO_ACCESS_KEY, MINIO_SECRET_KEY missing
Configs(c) ==
    { [ip |-> c, access |-> a, secret |-> 1] : a \in Creds }
        \cup { [ip |-> c, access |-> 0, secret |-> 1],
               [ip |-> c, access |-> 1, secret |-> 0],
               [ip |-> 0, access |-> 1, secret |-> 1] }

Ctr(status, conf) ==
    [status |-> status, ip |-> conf.ip, access |-> conf.access, secret |-> conf.secret]

\* events.Action values: the ones shouldRefresh names, and another one
RefreshActions ==
    {"create", "destroy", "start", "stop", "kill", "pause", "unpause", "restart", "die"}

OtherActions == {"rename"}

StreamErr == "ERR"

\* the failures the daemon may still inject: of ContainerList/ContainerInspect
\* calls, and of the event stream
FaultBudget(api, stream) == [api |-> api, stream |-> stream]

\* the daemon emits an event: it reaches the subscription while it is fed
Emit(action) ==
    /\ connected => Len(queue) < MaxQueue
    /\ queue' = IF connected THEN Append(queue, action) ELSE queue

DockerChange(c, state, action) ==
    /\ changes < MaxChanges
    /\ changes' = changes + 1
    /\ ctr' = [ctr EXCEPT ![c] = state]
    /\ Emit(action)
    /\ UNCHANGED <<connected, cancelled, faults>>
    /\ UNCHANGED <<regVars, call, watchVars, apiVars, ncalls, rd, gwVars>>

DockerCreate(c, conf) ==
    /\ ctr[c].status = "absent"
    /\ DockerChange(c, Ctr("exited", conf), "create")

DockerStart(c) ==
    /\ ctr[c].status = "exited"
    /\ DockerChange(c, [ctr[c] EXCEPT !.status = "running"], "start")

DockerExit(c, action) ==
    /\ ctr[c].status = "running"
    /\ DockerChange(c, [ctr[c] EXCEPT !.status = "exited"], action)

DockerPause(c) ==
    /\ ctr[c].status = "running"
    /\ DockerChange(c, [ctr[c] EXCEPT !.status = "paused"], "pause")

DockerUnpause(c) ==
    /\ ctr[c].status = "paused"
    /\ DockerChange(c, [ctr[c] EXCEPT !.status = "running"], "unpause")

DockerRestart(c) ==
    /\ ctr[c].status = "running"
    /\ DockerChange(c, ctr[c], "restart")

DockerDestroy(c) ==
    /\ ctr[c].status = "exited"
    /\ DockerChange(c, AbsentCtr, "destroy")

\* the container is replaced by a new one of the same name and address (stopped,
\* removed, created anew and started); "start" is the last event of the series
DockerRecreate(c, conf) ==
    /\ ctr[c].status = "running"
    /\ conf.ip = ctr[c].ip
    /\ Ctr("running", conf) # ctr[c]
    /\ DockerChange(c, Ctr("running", conf), "start")

\* an event of the container that is no lifecycle change
DockerOther(c, action) ==
    /\ ctr[c].status # "absent"
    /\ DockerChange(c, ctr[c], action)

\* the event stream breaks: the subscription gets its error and nothing after it
StreamFail ==
    /\ connected
    /\ faults.stream > 0
    /\ faults' = [faults EXCEPT !.stream = @ - 1]
    /\ connected' = FALSE
    /\ queue' = Append(queue, StreamErr)
    /\ UNCHANGED <<ctr, cancelled, changes>>
    /\ UNCHANGED <<regVars, call, watchVars, apiVars, ncalls, rd, gwVars>>

\* SIGINT/SIGTERM: signal.NotifyContext cancels ctx
Cancel ==
    /\ ~cancelled
    /\ cancelled' = TRUE
    /\ UNCHANGED <<ctr, queue, connected, changes, faults>>
    /\ UNCHANGED <<regVars, call, watchVars, apiVars, ncalls, rd, gwVars>>

InitCtrStates(c) ==
    { AbsentCtr,
      Ctr("running", [ip |-> c, access |-> 1, secret |-> 1]),
      Ctr("exited", [ip |-> c, access |-> 1, secret |-> 1]) }

InitDocker ==
    /\ ctr \in [Containers -> UNION { InitCtrStates(c) : c \in Containers }]
    /\ \A c \in Containers : ctr[c] \in InitCtrStates(c)
    /\ queue = <<>>
    /\ connected = FALSE
    /\ cancelled = FALSE
    /\ changes = 0
    /\ faults \in { FaultBudget(MaxFaults, 0), FaultBudget(0, MaxFaults) }

InitNoDocker ==
    /\ ctr = [c \in Containers |-> AbsentCtr]
    /\ queue = <<>>
    /\ connected = FALSE
    /\ cancelled = FALSE
    /\ changes = 0
    /\ faults = FaultBudget(0, 0)

\* the identities of the running, fully configured containers
LiveSet ==
    { ctr[c].ip : c \in { d \in Containers :
                            /\ ctr[d].status = "running"
                            /\ ctr[d].ip # 0
                            /\ ctr[d].access # 0
                            /\ ctr[d].secret # 0 } }

\* ------------------------------------------------------ registrar.Registrar
\* getServiceMetadataFromContainer(info)
GetServiceMetadataFromContainer(c) ==
    ServiceMetadata(c, ctr[c].ip, ctr[c].access, ctr[c].secret)

\* isValidServiceMetadata(serviceMetadata)
IsValidServiceMetadata(m) == m.IPAddress # 0 /\ m.AccessKey # 0 /\ m.SecretKey # 0

\* shouldRefresh(event)
ShouldRefreshNoDie(action) ==
    \/ action = "create" \/ action = "destroy" \/ action = "start"
    \/ action = "stop" \/ action = "kill" \/ action = "pause"
    \/ action = "unpause" \/ action = "restart"

ShouldRefresh(action) ==
    \/ action = "create" \/ action = "destroy" \/ action = "start"
    \/ action = "stop" \/ action = "kill" \/ action = "pause"
    \/ action = "unpause" \/ action = "restart" \/ action = "die"

\* ContainerList with the default options: the running and paused containers,
\* in a fixed order
RECURSIVE ListFrom(_)
ListFrom(c) ==
    IF c > NumContainers THEN <<>>
    ELSE IF ctr[c].status \in {"running", "paused"}
         THEN <<c>> \o ListFrom(c + 1)
         ELSE ListFrom(c + 1)

ContainerList == ListFrom(1)

\* the observed pass: its outcome, whether a ContainerList/ContainerInspect call
\* of it failed, the identity sets diffAndUpdateInstances compared (A current,
\* B new), the registry calls it made, and the registry as it was when the pass
\* began
ZeroCalls == [n \in Nodes |-> 0]

\* no event received yet on the open subscription
NoEvent == "none"

NoPass ==
    [kind |-> "none", outcome |-> "none", failed |-> FALSE, A |-> {}, B |-> {},
     reg |-> ZeroCalls, dereg |-> ZeroCalls,
     hash |-> NewConsistentHash, instances |-> NewMap]

BeginPass(kind) ==
    [kind |-> kind, outcome |-> "running", failed |-> FALSE, A |-> {}, B |-> {},
     reg |-> ZeroCalls, dereg |-> ZeroCalls,
     hash |-> hash, instances |-> instances]

\* diffAndUpdateInstances: currentSet
CurrentSet(currentInstances) == { i.IPAddress : i \in currentInstances }

\* diffAndUpdateInstances: the keys of newSet
NewSetKeys(newInstances) == { newInstances[i].IPAddress : i \in DOMAIN newInstances }

\* diffAndUpdateInstances: newSet[ip], the last instance with that address
NewSetAt(newInstances, ip) ==
    newInstances[CHOOSE i \in DOMAIN newInstances :
                    /\ newInstances[i].IPAddress = ip
                    /\ \A j \in DOMAIN newInstances :
                          newInstances[j].IPAddress = ip => j <= i]

\* diffAndUpdateInstances: the instances its first loop registers
DiffToRegisterAll(newInstances, currentInstances) ==
    { NewSetAt(newInstances, ip) : ip \in NewSetKeys(newInstances) }

DiffToRegister(newInstances, currentInstances) ==
    { NewSetAt(newInstances, ip) :
        ip \in NewSetKeys(newInstances) \ CurrentSet(currentInstances) }

\* diffAndUpdateInstances: the addresses its second loop deregisters
DiffToDeregister(newInstances, currentInstances) ==
    CurrentSet(currentInstances) \ NewSetKeys(newInstances)

\* refreshInstances when ContainerInspect fails: return err
InspectErrorSkips(rest) ==
    [wpc |-> "inspect", listed |-> rest, outcome |-> "running"]

InspectError(rest) ==
    [wpc |-> after, listed |-> <<>>, outcome |-> "error"]

\* ListenForDockerEvents: the initial refresh begins
WStartNoRefresh ==
    /\ wpc = "start"
    /\ wpc' = "subscribe"
    /\ UNCHANGED <<after, pass, listed, available, toRegister, toDeregister>>
    /\ UNCHANGED <<regVars, call, envVars, apiVars, ncalls, rd, handled, gwVars>>

WStart ==
    /\ wpc = "start"
    /\ wpc' = "list"
    /\ after' = "subscribe"
    /\ pass' = BeginPass("initial")
    /\ UNCHANGED <<listed, available, toRegister, toDeregister>>
    /\ UNCHANGED <<regVars, call, envVars, apiVars, ncalls, rd, handled, gwVars>>

\* refreshInstances: ContainerList succeeds
WList ==
    /\ wpc = "list"
    /\ ~cancelled
    /\ wpc' = "inspect"
    /\ listed' = ContainerList
    /\ available' = <<>>
    /\ UNCHANGED <<after, toRegister, toDeregister, pass>>
    /\ UNCHANGED <<regVars, call, envVars, apiVars, ncalls, rd, handled, gwVars>>

\* refreshInstances: ContainerList fails (ctx cancelled, or the daemon fails)
WListFail ==
    /\ wpc = "list"
    /\ \/ cancelled /\ UNCHANGED faults
       \/ ~cancelled /\ faults.api > 0 /\ faults' = [faults EXCEPT !.api = @ - 1]
    /\ wpc' = after
    /\ pass' = [pass EXCEPT !.outcome = "error", !.failed = TRUE]
    /\ UNCHANGED <<after, listed, available, toRegister, toDeregister>>
    /\ UNCHANGED <<regVars, call, ctr, queue, connected, cancelled, changes, apiVars, ncalls, rd, handled, gwVars>>

\* refreshInstances: ContainerInspect of the next container succeeds
WInspect ==
    /\ wpc = "inspect"
    /\ listed # <<>>
    /\ ~cancelled
    /\ ctr[Head(listed)].status # "absent"
    /\ LET c == Head(listed)
           serviceMetadata == GetServiceMetadataFromContainer(c)
       IN  available' =
              IF ctr[c].status = "running" /\ IsValidServiceMetadata(serviceMetadata)
              THEN Append(available, serviceMetadata)
              ELSE available
    /\ listed' = Tail(listed)
    /\ UNCHANGED <<wpc, after, toRegister, toDeregister, pass>>
    /\ UNCHANGED <<regVars, call, envVars, apiVars, ncalls, rd, handled, gwVars>>

\* refreshInstances: ContainerInspect fails (ctx cancelled, the container is
\* gone, or the daemon fails)
WInspectFail ==
    /\ wpc = "inspect"
    /\ listed # <<>>
    /\ \/ (cancelled \/ ctr[Head(listed)].status = "absent") /\ UNCHANGED faults
       \/ ~cancelled /\ faults.api > 0 /\ faults' = [faults EXCEPT !.api = @ - 1]
    /\ LET e == InspectError(Tail(listed))
       IN  /\ wpc' = e.wpc
           /\ listed' = e.listed
           /\ pass' = [pass EXCEPT !.outcome = e.outcome, !.failed = TRUE]
    /\ UNCHANGED <<after, available, toRegister, toDeregister>>
    /\ UNCHANGED <<regVars, call, ctr, queue, connected, cancelled, changes, apiVars, ncalls, rd, handled, gwVars>>

\* diffAndUpdateInstances: GetAllServices, currentSet, newSet
WDiff ==
    /\ wpc = "inspect"
    /\ listed = <<>>
    /\ LET currentInstances == GetAllServices(instances)
       IN  /\ toRegister' = DiffToRegister(available, currentInstances)
           /\ toDeregister' = DiffToDeregister(available, currentInstances)
           /\ pass' = [pass EXCEPT !.A = CurrentSet(currentInstances),
                                   !.B = NewSetKeys(available)]
    /\ wpc' = "update"
    /\ UNCHANGED <<after, listed, available>>
    /\ UNCHANGED <<regVars, call, envVars, apiVars, ncalls, rd, handled, gwVars>>

\* diffAndUpdateInstances: the first loop calls RegisterService(instance)
WRegister(instance) ==
    /\ wpc = "update"
    /\ CallIdle(Registrar)
    /\ instance \in toRegister
    /\ toRegister' = toRegister \ {instance}
    /\ call' = EnterRegister(Registrar, instance)
    /\ pass' = [pass EXCEPT !.reg[instance.IPAddress] = @ + 1]
    /\ UNCHANGED <<wpc, after, listed, available, toDeregister>>
    /\ UNCHANGED <<regVars, envVars, apiVars, ncalls, rd, handled, gwVars>>

\* diffAndUpdateInstances: the second loop calls DeregisterService(i)
WDeregister(ip) ==
    /\ wpc = "update"
    /\ CallIdle(Registrar)
    /\ toRegister = {}
    /\ ip \in toDeregister
    /\ toDeregister' = toDeregister \ {ip}
    /\ call' = EnterDeregister(Registrar, ip)
    /\ pass' = [pass EXCEPT !.dereg[ip] = @ + 1]
    /\ UNCHANGED <<wpc, after, listed, available, toRegister>>
    /\ UNCHANGED <<regVars, envVars, apiVars, ncalls, rd, handled, gwVars>>

\* diffAndUpdateInstances and refreshInstances return nil
WPassDone ==
    /\ wpc = "update"
    /\ CallIdle(Registrar)
    /\ toRegister = {}
    /\ toDeregister = {}
    /\ wpc' = after
    /\ pass' = [pass EXCEPT !.outcome = "ok"]
    /\ UNCHANGED <<after, listed, available, toRegister, toDeregister>>
    /\ UNCHANGED <<regVars, call, envVars, apiVars, ncalls, rd, handled, gwVars>>

\* r.dockerClient.Events(ctx, ...): a new subscription; with ctx cancelled it
\* only ever yields its error
WSubscribe ==
    /\ wpc = "subscribe"
    /\ wpc' = "select"
    /\ connected' = ~cancelled
    /\ queue' = IF cancelled THEN <<StreamErr>> ELSE <<>>
    /\ handled' = NoEvent
    /\ UNCHANGED <<after, listed, available, toRegister, toDeregister, pass>>
    /\ UNCHANGED <<regVars, call, ctr, cancelled, changes, faults, apiVars, ncalls, rd, gwVars>>

\* select: case <-ctx.Done(): return
WSelectDone ==
    /\ wpc = "select"
    /\ cancelled
    /\ wpc' = "returned"
    /\ UNCHANGED <<after, listed, available, toRegister, toDeregister, pass>>
    /\ UNCHANGED <<regVars, call, envVars, apiVars, ncalls, rd, handled, gwVars>>

\* select: case event := <-messageChan, then handleDockerEvent
WSelectEvent ==
    /\ wpc = "select"
    /\ queue # <<>>
    /\ Head(queue) # StreamErr
    /\ queue' = Tail(queue)
    /\ IF ShouldRefresh(Head(queue))
       THEN /\ wpc' = "list"
            /\ after' = "select"
            /\ pass' = BeginPass("event")
       ELSE UNCHANGED <<wpc, after, pass>>
    /\ handled' = IF ShouldRefresh(Head(queue)) THEN "refresh" ELSE "ignore"
    /\ UNCHANGED <<listed, available, toRegister, toDeregister>>
    /\ UNCHANGED <<regVars, call, ctr, connected, cancelled, changes, faults, apiVars, ncalls, rd, gwVars>>

\* select: case e := <-errChan, taken as a reason to return
WSelectErrReturns ==
    /\ wpc = "select"
    /\ \/ queue # <<>> /\ Head(queue) = StreamErr
       \/ cancelled /\ connected
    /\ wpc' = "returned"
    /\ queue' = <<>>
    /\ connected' = FALSE
    /\ handled' = NoEvent
    /\ UNCHANGED <<after, listed, available, toRegister, toDeregister, pass>>
    /\ UNCHANGED <<regVars, call, ctr, cancelled, changes, faults, apiVars, ncalls, rd, gwVars>>

\* select: case e := <-errChan: break secondLoop (the stream's own error, or
\* ctx.Err() once ctx is cancelled, which discards the pending message)
WSelectErr ==
    /\ wpc = "select"
    /\ \/ queue # <<>> /\ Head(queue) = StreamErr
       \/ cancelled /\ connected
    /\ wpc' = "subscribe"
    /\ queue' = <<>>
    /\ connected' = FALSE
    /\ handled' = NoEvent
    /\ UNCHANGED <<after, listed, available, toRegister, toDeregister, pass>>
    /\ UNCHANGED <<regVars, call, ctr, cancelled, changes, faults, apiVars, ncalls, rd, gwVars>>

InitWatcher ==
    /\ wpc = "start"
    /\ after = "subscribe"
    /\ listed = <<>>
    /\ available = <<>>
    /\ toRegister = {}
    /\ toDeregister = {}
    /\ pass = NoPass
    /\ handled = NoEvent

WatcherNext ==
    \/ WStart
    \/ WList
    \/ WListFail
    \/ WInspect
    \/ WInspectFail
    \/ WDiff
    \/ \E instance \in toRegister : WRegister(instance)
    \/ \E ip \in toDeregister : WDeregister(ip)
    \/ RegSet(Registrar)
    \/ RegRingRemove(Registrar)
    \/ RegRingAdd(Registrar)
    \/ DeregMapRemove(Registrar)
    \/ DeregRingRemove(Registrar)
    \/ WPassDone
    \/ WSubscribe
    \/ WSelectDone
    \/ WSelectEvent
    \/ WSelectErr

DockerNext ==
    \/ \E c \in Containers : \E conf \in Configs(c) : DockerCreate(c, conf)
    \/ \E c \in Containers : DockerStart(c)
    \/ \E c \in Containers, action \in {"stop", "kill", "die"} : DockerExit(c, action)
    \/ \E c \in Containers : DockerPause(c)
    \/ \E c \in Containers : DockerUnpause(c)
    \/ \E c \in Containers : DockerRestart(c)
    \/ \E c \in Containers : DockerDestroy(c)
    \/ \E c \in Containers : \E conf \in Configs(c) : DockerRecreate(c, conf)
    \/ \E c \in Containers, action \in OtherActions : DockerOther(c, action)
    \/ StreamFail
    \/ Cancel

Init ==
    /\ InitRegistry
    /\ InitApiVars
    /\ InitCalls
    /\ InitDocker
    /\ InitWatcher
    /\ InitResolve
    /\ InitMatchCall
    /\ InitStore

Next ==
    \/ WatcherNext
    \/ DockerNext

Spec == Init /\ [][Next]_vars

\* the registrar's goroutine keeps being scheduled; Docker and the signal may
\* stay quiet
FairSpec == Spec /\ WF_vars(WatcherNext)

\* ------------------------------------------ the watcher loop, one container
\* the daemon with one container of the prefix and a flaky event stream
FirstContainer == 1

InitLoopDocker ==
    /\ ctr \in [Containers -> UNION { InitCtrStates(c) : c \in Containers }]
    /\ ctr[FirstContainer] \in InitCtrStates(FirstContainer)
    /\ \A c \in Containers \ {FirstContainer} : ctr[c] = AbsentCtr
    /\ queue = <<>>
    /\ connected = FALSE
    /\ cancelled = FALSE
    /\ changes = 0
    /\ faults = FaultBudget(MaxFaults, LoopFaults)

InitLoop ==
    /\ InitRegistry
    /\ InitApiVars
    /\ InitCalls
    /\ InitLoopDocker
    /\ InitWatcher
    /\ InitResolve
    /\ InitMatchCall
    /\ InitStore

LoopDockerNext ==
    \/ \E conf \in Configs(FirstContainer) : DockerCreate(FirstContainer, conf)
    \/ DockerStart(FirstContainer)
    \/ \E action \in {"stop", "kill", "die"} : DockerExit(FirstContainer, action)
    \/ DockerPause(FirstContainer)
    \/ DockerUnpause(FirstContainer)
    \/ DockerRestart(FirstContainer)
    \/ DockerDestroy(FirstContainer)
    \/ \E action \in OtherActions : DockerOther(FirstContainer, action)
    \/ StreamFail
    \/ Cancel

NextLoop ==
    \/ WatcherNext
    \/ LoopDockerNext

\* the registrar's goroutine keeps being scheduled, and a select whose
\* ctx.Done() case is ready again and again takes it at some point (Go chooses
\* among the ready cases at random)
SpecLoop ==
    InitLoop /\ [][NextLoop]_vars /\ WF_vars(WatcherNext) /\ SF_vars(WSelectDone)

\* ------------------------------------- gateway.ObjectStorage.getMatchingInstance
\* fmt.Errorf("failed to get minio instance for object id: %w", err)
AttemptError(err) ==
    [type |-> "wrapError", msg |-> "failed to get minio instance for object id",
     wraps |-> err.type]

\* what retry.Do returns when every attempt failed
RetryError == [type |-> "retry.Error", msg |-> "All attempts fail", wraps |-> "wrapError"]

\* retry.Do: another attempt follows a failed one while fewer than
\* retry.Attempts(3) were made
RetryAgainAlways(made) == TRUE

RetryAgain(made) == made < MaxAttempts

\* one MatchService attempt as observed: its result, the identity hash.Get
\* named, whether the ring was empty then, the map entry of that identity at
\* the lookup, and whether the registry was consistent, non-empty and unchanged
\* throughout the attempt
Try(res, serviceIP, ringEmpty, entry, quiet) ==
    [res |-> res, serviceIP |-> serviceIP, ringEmpty |-> ringEmpty,
     entry |-> entry, quiet |-> quiet]

\* the retried function returned: instance and err are assigned, retry.Do
\* returns nil, retries, or gives up
AfterAttempt(try) ==
    LET tries == Append(rd.tries, try)
    IN  [rd EXCEPT
           !.tries = tries,
           !.seen = <<>>,
           !.instance = try.res.service,
           !.pc = IF try.res.err = NoErr THEN "done"
                  ELSE IF RetryAgain(Len(tries)) THEN "get" ELSE "done",
           !.err = IF try.res.err = NoErr THEN NoErr
                   ELSE IF RetryAgain(Len(tries)) THEN NoErr ELSE RetryError]

\* getMatchingInstance(id) is called
GBegin(key) ==
    /\ rd.pc = "idle"
    /\ rd' = [NoResolve EXCEPT !.pc = "get", !.key = key]
    /\ UNCHANGED <<regVars, apiVars, call, ncalls, envVars, watchVars, gwVars>>

\* MatchService: r.hash.Get(key)
GHashGet ==
    /\ rd.pc = "get"
    /\ LET serviceIP == HashGet(hash, rd.key)
       IN  IF serviceIP = NoNode
           THEN rd' = AfterAttempt(Try(MatchNoOwner, NoNode,
                          RingIdentities(hash) = {}, Absent,
                          /\ RingIdentities(hash) = MapKeys(instances)
                          /\ MapKeys(instances) # {}
                          /\ CallIdle(Registrar)))
           ELSE rd' = [rd EXCEPT !.pc = "lookup",
                                 !.serviceIP = serviceIP,
                                 !.seen = <<RingIdentities(hash), instances>>]
    /\ UNCHANGED <<regVars, apiVars, call, ncalls, envVars, watchVars, gwVars>>

\* MatchService: r.instances.Get(serviceIP) and the return
GLookup ==
    /\ rd.pc = "lookup"
    /\ rd' = AfterAttempt(Try(MatchLookup(instances, rd.serviceIP), rd.serviceIP,
                FALSE, instances[rd.serviceIP],
                /\ rd.seen = <<RingIdentities(hash), instances>>
                /\ RingIdentities(hash) = MapKeys(instances)
                /\ CallIdle(Registrar)))
    /\ UNCHANGED <<regVars, apiVars, call, ncalls, envVars, watchVars, gwVars>>

\* getMatchingInstance has returned to GetObject/PutObject
GReturn ==
    /\ rd.pc = "done"
    /\ rd' = NoResolve
    /\ UNCHANGED <<regVars, apiVars, call, ncalls, envVars, watchVars, gwVars>>

\* the registrar, reduced to the calls diffAndUpdateInstances can make: one at
\* a time, RegisterService of an identity the map lacks, DeregisterService of
\* one it holds
SWRegister(service) ==
    /\ CallIdle(Registrar)
    /\ ~MapHas(instances, service.IPAddress)
    /\ call' = EnterRegister(Registrar, service)
    /\ UNCHANGED <<regVars, apiVars, ncalls, envVars, watchVars, rd, gwVars>>

SWDeregister(ipAddress) ==
    /\ CallIdle(Registrar)
    /\ MapHas(instances, ipAddress)
    /\ call' = EnterDeregister(Registrar, ipAddress)
    /\ ms' = IF ms.pc = "lookup"
             THEN [ms EXCEPT !.overlap.dereg = @ \cup {ipAddress}]
             ELSE ms
    /\ UNCHANGED <<regVars, apiVars, ncalls, envVars, watchVars, rd, storeVars>>

ReaderStep ==
    \/ GHashGet
    \/ GLookup

NextResolve ==
    \/ \E key \in Keys : GBegin(key)
    \/ GHashGet
    \/ GLookup
    \/ GReturn
    \/ \E service \in AllMetadata : SWRegister(service)
    \/ \E ipAddress \in Nodes : SWDeregister(ipAddress)
    \/ RegSet(Registrar)
    \/ RegRingRemove(Registrar)
    \/ RegRingAdd(Registrar)
    \/ DeregMapRemove(Registrar)
    \/ DeregRingRemove(Registrar)

InitResolveSpec ==
    /\ InitRegistry
    /\ InitApiVars
    /\ InitCalls
    /\ InitNoDocker
    /\ InitWatcher
    /\ InitResolve
    /\ InitMatchCall
    /\ InitStore

\* the request's goroutine keeps running: a started attempt completes and the
\* delay between attempts ends
SpecResolve == InitResolveSpec /\ [][NextResolve]_vars /\ WF_vars(ReaderStep)

\* ----------------------------------------- the HTTP handlers and the gateway
\* getMatchingInstance(id) against a registry nobody changes: retry.Do around
\* MatchService, made attempts so far
RECURSIVE GetMatchingInstance(_, _, _, _)
GetMatchingInstance(h, m, key, made) ==
    LET res == MatchService(h, m, key)
    IN  IF res.err = NoErr
        THEN [instance |-> res.service, err |-> NoErr, attempts |-> made + 1]
        ELSE IF RetryAgain(made + 1)
        THEN GetMatchingInstance(h, m, key, made + 1)
        ELSE [instance |-> res.service, err |-> RetryError, attempts |-> made + 1]

\* what a call of the MinIO client can fail with besides the node's own answer:
\* a transport error, and an error response that is not a 404
BackendFaults == { ErrIO, ErrorResponse(503, "SlowDown") }

FaultChoices == {NoRespErr} \cup BackendFaults

\* handleGetObject: the status written for the error GetObject returned
GetStatus(err) ==
    IF err = NoErr THEN 200
    ELSE IF ErrorsIsNotFound(err) THEN 404
    ELSE 500

\* handlePutObject: the status written for the error PutObject returned
PutStatus(err) == IF err = NoErr THEN 200 ELSE 500

\* GetObject: the error returned for what io.ReadAll(object) failed with
ReadErrorNoStatus(resp) ==
    IF resp = NoRespErr THEN NoErr
    ELSE IF resp.type = "minio.ErrorResponse" THEN NotFoundError
    ELSE WrapError("failed to read object", resp)

ReadError(resp) ==
    IF resp = NoRespErr THEN NoErr
    ELSE IF resp.type = "minio.ErrorResponse" /\ resp.status = 404 THEN NotFoundError
    ELSE WrapError("failed to read object", resp)

\* the handlers up to the storage call: validateID(id), the 400 answer, and in
\* handlePutObject io.ReadAll(r.Body)
HBegin(r, method, id, bucket, body, fault) ==
    /\ req[r].pc = "idle"
    /\ nreq < MaxRequests
    /\ r = 1 \/ req[1].pc # "idle"
    /\ method = "GET" <=> body = NoObject
    /\ fault # NoRespErr => bfaults > 0 /\ method = "PUT" /\ ValidateID(id) = NoErr
                            /\ fault = ErrIO
    /\ LET started == [NoRequest EXCEPT !.method = method, !.id = id,
                          !.bucket = bucket, !.body = body, !.calls.validate = 1]
           err == ValidateID(id)
       IN  req' = [req EXCEPT ![r] =
                     IF err # NoErr
                     THEN [started EXCEPT !.pc = "done", !.status = 400, !.err = err]
                     ELSE IF fault # NoRespErr
                     THEN [started EXCEPT !.pc = "done", !.status = 500,
                                          !.err = fault, !.faulted = TRUE]
                     ELSE [started EXCEPT !.pc = "resolve", !.calls.storage = 1]]
    /\ bfaults' = IF fault # NoRespErr THEN bfaults - 1 ELSE bfaults
    /\ nreq' = nreq + 1
    /\ UNCHANGED <<regVars, apiVars, call, ncalls, envVars, watchVars, rd, ms,
                   minio, lastPut>>

\* GetObject / PutObject: getMatchingInstance(id), and the return on its error
HResolve(r) ==
    /\ req[r].pc = "resolve"
    /\ LET got == GetMatchingInstance(hash, instances, IdKey(req[r].id), 0)
           resolved == [req[r] EXCEPT !.calls.resolve = got.attempts,
                                      !.node = got.instance.IPAddress]
       IN  req' = [req EXCEPT ![r] =
                     IF got.err # NoErr
                     THEN [resolved EXCEPT !.pc = "done", !.status = 500, !.err = got.err]
                     ELSE [resolved EXCEPT
                             !.pc = IF req[r].method = "GET" THEN "read" ELSE "exists"]]
    /\ UNCHANGED <<regVars, apiVars, call, ncalls, envVars, watchVars, rd, ms,
                   minio, lastPut, bfaults, nreq>>

\* whether a writing call reached the node: always when it returned the node's
\* answer, possibly when the transport failed, never when an error was answered
Landed(fault, landed) ==
    /\ fault = NoRespErr => landed
    /\ landed => fault \in {NoRespErr, ErrIO}

\* a call of the MinIO client was made
Called(r, name, fault) ==
    [req[r] EXCEPT !.calls.backend = Append(@, name),
                   !.resp = fault,
                   !.faulted = @ \/ fault # NoRespErr]

\* PutObject: minioInstance.BucketExists and the return on its error
HBucketExists(r, fault) ==
    /\ req[r].pc = "exists"
    /\ fault # NoRespErr => bfaults > 0
    /\ LET called == Called(r, "BucketExists", fault)
       IN  req' = [req EXCEPT ![r] =
                     IF fault # NoRespErr
                     THEN [called EXCEPT !.pc = "done", !.status = 500,
                             !.err = WrapError("failed to check bucket existence", fault)]
                     ELSE [called EXCEPT
                             !.exists = BucketExists(minio, req[r].node, req[r].bucket),
                             !.pc = IF BucketExists(minio, req[r].node, req[r].bucket)
                                    THEN "put" ELSE "make"]]
    /\ bfaults' = IF fault # NoRespErr THEN bfaults - 1 ELSE bfaults
    /\ UNCHANGED <<regVars, apiVars, call, ncalls, envVars, watchVars, rd, ms,
                   minio, lastPut, nreq>>

\* PutObject: minioInstance.MakeBucket and the return on its error
HMakeBucket(r, fault, landed) ==
    /\ req[r].pc = "make"
    /\ fault # NoRespErr => bfaults > 0
    /\ Landed(fault, landed)
    /\ LET made == MakeBucket(minio, req[r].node, req[r].bucket)
           resp == IF fault # NoRespErr THEN fault ELSE made.err
           called == [Called(r, "MakeBucket", fault) EXCEPT !.resp = resp]
       IN  /\ req' = [req EXCEPT ![r] =
                        IF resp # NoRespErr
                        THEN [called EXCEPT !.pc = "done", !.status = 500,
                                !.err = WrapError("failed to create bucket", resp)]
                        ELSE [called EXCEPT !.pc = "put"]]
           /\ minio' = IF landed THEN made.minio ELSE minio
    /\ bfaults' = IF fault # NoRespErr THEN bfaults - 1 ELSE bfaults
    /\ UNCHANGED <<regVars, apiVars, call, ncalls, envVars, watchVars, rd, ms,
                   lastPut, nreq>>

\* PutObject: minioInstance.PutObject, the return, and handlePutObject's answer
HPutObject(r, fault, landed) ==
    /\ req[r].pc = "put"
    /\ fault # NoRespErr => bfaults > 0
    /\ Landed(fault, landed)
    /\ LET stored == StoreObject(minio, req[r].node, req[r].bucket, req[r].id,
                                 req[r].body)
           resp == IF fault # NoRespErr THEN fault ELSE stored.err
           called == [Called(r, "PutObject", fault) EXCEPT !.resp = resp]
           err == IF resp # NoRespErr THEN WrapError("failed to put object", resp)
                  ELSE NoErr
       IN  /\ req' = [req EXCEPT ![r] =
                        [called EXCEPT !.pc = "done", !.status = PutStatus(err),
                                       !.err = err]]
           /\ minio' = IF landed THEN stored.minio ELSE minio
           /\ lastPut' = IF resp = NoRespErr
                         THEN [lastPut EXCEPT ![<<req[r].bucket, req[r].id>>] =
                                 [data |-> req[r].body, node |-> req[r].node]]
                         ELSE lastPut
    /\ bfaults' = IF fault # NoRespErr THEN bfaults - 1 ELSE bfaults
    /\ UNCHANGED <<regVars, apiVars, call, ncalls, envVars, watchVars, rd, ms, nreq>>

\* GetObject: minioInstance.GetObject (which sends nothing yet),
\* io.ReadAll(object), the return, and handleGetObject's answer
HReadObject(r, fault) ==
    /\ req[r].pc = "read"
    /\ fault # NoRespErr => bfaults > 0
    /\ LET read == ReadObject(minio, req[r].node, req[r].bucket, req[r].id)
           resp == IF fault # NoRespErr THEN fault ELSE read.err
           called == [Called(r, "GetObject", fault) EXCEPT !.resp = resp]
           err == ReadError(resp)
       IN  req' = [req EXCEPT ![r] =
                     [called EXCEPT !.pc = "done", !.status = GetStatus(err),
                                    !.err = err,
                                    !.data = IF err = NoErr THEN read.data
                                             ELSE NoObject]]
    /\ bfaults' = IF fault # NoRespErr THEN bfaults - 1 ELSE bfaults
    /\ UNCHANGED <<regVars, apiVars, call, ncalls, envVars, watchVars, rd, ms,
                   minio, lastPut, nreq>>

\* the handler has returned
HReturn(r) ==
    /\ req[r].pc = "done"
    /\ req' = [req EXCEPT ![r] = NoRequest]
    /\ UNCHANGED <<regVars, apiVars, call, ncalls, envVars, watchVars, rd, ms,
                   minio, lastPut, bfaults, nreq>>

NextStore ==
    \/ \E r \in Requests, method \in {"GET", "PUT"}, id \in RequestIDs, bucket \in Buckets,
          body \in Values \cup {NoObject}, fault \in FaultChoices :
            HBegin(r, method, id, bucket, body, fault)
    \/ \E r \in Requests : HResolve(r)
    \/ \E r \in Requests, fault \in FaultChoices : HBucketExists(r, fault)
    \/ \E r \in Requests, fault \in FaultChoices, landed \in BOOLEAN :
            HMakeBucket(r, fault, landed)
    \/ \E r \in Requests, fault \in FaultChoices, landed \in BOOLEAN :
            HPutObject(r, fault, landed)
    \/ \E r \in Requests, fault \in FaultChoices : HReadObject(r, fault)
    \/ \E r \in Requests : HReturn(r)

\* the registry after the registrar registered the first n nodes, and idle since
RECURSIVE StableHash(_)
StableHash(n) ==
    IF n = 0 THEN NewConsistentHash
    ELSE RegisterServiceHash(StableHash(n - 1), ServiceMetadata(n, n, 1, 1))

RECURSIVE StableMap(_)
StableMap(n) ==
    IF n = 0 THEN NewMap
    ELSE RegisterServiceMap(StableMap(n - 1), ServiceMetadata(n, n, 1, 1))

InitStable ==
    \E n \in {0, NumNodes} :
        /\ hash = StableHash(n)
        /\ instances = StableMap(n)

InitStoreSpec ==
    /\ InitStable
    /\ InitApiVars
    /\ InitCalls
    /\ InitNoDocker
    /\ InitWatcher
    /\ InitResolve
    /\ InitMatchCall
    /\ InitObjects
    /\ bfaults = MaxBackendFaults

SpecStore == InitStoreSpec /\ [][NextStore]_vars

\* --------------------------------- MatchService beside the registrar's calls
\* the registrar's call in progress as a MatchService call meets it when it
\* reads the ring: whether a RegisterService call stands between its map write
\* and its ring insertion, and the identity a DeregisterService call is removing
Overlap ==
    [reg |-> call[Registrar].pc \in {"reg_remove", "reg_add"},
     dereg |-> IF call[Registrar].pc \in {"dereg_map", "dereg_ring"}
               THEN {call[Registrar].service.IPAddress}
               ELSE {}]

\* MatchService(key) is called
MBegin(key) ==
    /\ ms.pc = "idle"
    /\ ms' = [NoMatchCall EXCEPT !.pc = "get", !.key = key]
    /\ UNCHANGED <<regVars, apiVars, call, ncalls, envVars, watchVars, rd, storeVars>>

\* MatchService: r.hash.Get(key), and the return when it names no identity
MHashGet ==
    /\ ms.pc = "get"
    /\ LET serviceIP == HashGet(hash, ms.key)
       IN  ms' = [ms EXCEPT
                    !.pc = IF serviceIP = NoNode THEN "done" ELSE "lookup",
                    !.serviceIP = serviceIP,
                    !.ringEmpty = RingIdentities(hash) = {},
                    !.res = MatchNoOwner,
                    !.overlap = Overlap]
    /\ UNCHANGED <<regVars, apiVars, call, ncalls, envVars, watchVars, rd, storeVars>>

\* MatchService: r.instances.Get(serviceIP) and the return
MLookup ==
    /\ ms.pc = "lookup"
    /\ ms' = [ms EXCEPT !.pc = "done",
                        !.entry = instances[ms.serviceIP],
                        !.res = MatchLookup(instances, ms.serviceIP)]
    /\ UNCHANGED <<regVars, apiVars, call, ncalls, envVars, watchVars, rd, storeVars>>

\* the caller has taken the result
MReturn ==
    /\ ms.pc = "done"
    /\ ms' = NoMatchCall
    /\ UNCHANGED <<regVars, apiVars, call, ncalls, envVars, watchVars, rd, storeVars>>

NextMatch ==
    \/ \E key \in Keys : MBegin(key)
    \/ MHashGet
    \/ MLookup
    \/ MReturn
    \/ \E service \in AllMetadata : SWRegister(service)
    \/ \E ipAddress \in Nodes : SWDeregister(ipAddress)
    \/ RegSet(Registrar)
    \/ RegRingRemove(Registrar)
    \/ RegRingAdd(Registrar)
    \/ DeregMapRemove(Registrar)
    \/ DeregRingRemove(Registrar)

SpecMatch == InitResolveSpec /\ [][NextMatch]_vars

\* ---------------------------------------- the registry called sequentially
\* every Match result of a registry state
MatchAll(h, m) == [key \in Keys |-> MatchService(h, m, key)]

\* what a call did: was it the previous call again, was its identity absent
\* from both structures, and did ring, map and Match results stay as they were
EffectOf(thisCall, absent) ==
    [repeated |-> (thisCall = lastCall),
     absent |-> absent,
     unchanged |-> /\ hash' = hash
                   /\ instances' = instances
                   /\ MatchAll(hash', instances') = MatchAll(hash, instances)]

ApiRegister(service) ==
    /\ instances' = RegisterServiceMap(instances, service)
    /\ hash' = RegisterServiceHash(hash, service)
    /\ UNCHANGED <<apiVars, call, ncalls, envVars, watchVars, rd, gwVars>>

ApiDeregister(ipAddress) ==
    /\ instances' = DeregisterServiceMap(instances, ipAddress)
    /\ hash' = DeregisterServiceHash(hash, ipAddress)
    /\ UNCHANGED <<apiVars, call, ncalls, envVars, watchVars, rd, gwVars>>

ApiMatch(key) ==
    /\ lastMatch' = [key |-> key, res |-> MatchService(hash, instances, key),
                     members |-> instances]
    /\ UNCHANGED <<regVars, lastCall, effect, call, ncalls, envVars, watchVars, rd, gwVars>>

\* no registrar and no containers: the registry and its direct callers only
InitAPI ==
    /\ InitRegistry
    /\ InitApiVars
    /\ InitCalls
    /\ InitNoDocker
    /\ InitWatcher
    /\ InitResolve
    /\ InitMatchCall
    /\ InitStore

NextAPI ==
    \/ \E service \in AllMetadata : ApiRegister(service)
    \/ \E ipAddress \in Nodes : ApiDeregister(ipAddress)
    \/ \E key \in Keys : ApiMatch(key)

SpecAPI == InitAPI /\ [][NextAPI]_vars

\* ------------------------------- consecutive calls of the registry's writers
SeqRegister(service) ==
    /\ instances' = RegisterServiceMap(instances, service)
    /\ hash' = RegisterServiceHash(hash, service)
    /\ lastCall' = [op |-> "register", service |-> service]
    /\ effect' = EffectOf(lastCall', FALSE)
    /\ UNCHANGED <<lastMatch, call, ncalls, envVars, watchVars, rd, gwVars>>

SeqDeregister(ipAddress) ==
    /\ instances' = DeregisterServiceMap(instances, ipAddress)
    /\ hash' = DeregisterServiceHash(hash, ipAddress)
    /\ lastCall' = [op |-> "deregister",
                    service |-> ServiceMetadata(0, ipAddress, 0, 0)]
    /\ effect' = EffectOf(lastCall',
                          ~MapHas(instances, ipAddress)
                              /\ ipAddress \notin RingIdentities(hash))
    /\ UNCHANGED <<lastMatch, call, ncalls, envVars, watchVars, rd, gwVars>>

NextSeq ==
    \/ \E service \in AllMetadata : SeqRegister(service)
    \/ \E ipAddress \in Nodes : SeqDeregister(ipAddress)

SpecSeq == InitAPI /\ [][NextSeq]_vars

\* ----------------------------------- the registry called by concurrent callers
ConcRegister(w, service) ==
    /\ CallIdle(w)
    /\ ncalls < MaxCalls
    /\ ncalls' = ncalls + 1
    /\ call' = EnterRegister(w, service)
    /\ UNCHANGED <<regVars, apiVars, envVars, watchVars, rd, gwVars>>

ConcDeregister(w, ipAddress) ==
    /\ CallIdle(w)
    /\ ncalls < MaxCalls
    /\ ncalls' = ncalls + 1
    /\ call' = EnterDeregister(w, ipAddress)
    /\ UNCHANGED <<regVars, apiVars, envVars, watchVars, rd, gwVars>>

NextConc ==
    \/ \E w \in Callers, service \in AllMetadata : ConcRegister(w, service)
    \/ \E w \in Callers, ipAddress \in Nodes : ConcDeregister(w, ipAddress)
    \/ \E w \in Callers : RegSet(w)
    \/ \E w \in Callers : RegRingRemove(w)
    \/ \E w \in Callers : RegRingAdd(w)
    \/ \E w \in Callers : DeregMapRemove(w)
    \/ \E w \in Callers : DeregRingRemove(w)

SpecConc == InitAPI /\ [][NextConc]_vars

\* ================================================================ properties

\* C4: after any sequence of completed RegisterService/DeregisterService calls
\* that leaves at least one member, MatchService succeeds for every key and
\* returns the stored metadata of a currently registered member (with a single
\* member, that member); the latest MatchService call made on a non-empty
\* registry returned no error and a member of that registry.
C4_MatchTotal ==
    /\ MapKeys(instances) # {} =>
          \A key \in Keys :
             LET r == MatchService(hash, instances, key)
             IN  /\ r.err = NoErr
                 /\ MapHas(instances, r.service.IPAddress)
                 /\ r.service = instances[r.service.IPAddress]
    /\ (lastMatch.key # -1 /\ MapKeys(lastMatch.members) # {}) =>
          /\ lastMatch.res.err = NoErr
          /\ lastMatch.res.service \in GetAllServices(lastMatch.members)

\* a MatchService call answered from a registry of two members, one of which
\* has been deregistered since
C4_Witness ==
    /\ lastMatch.key # -1
    /\ lastMatch.res.err = NoErr
    /\ Cardinality(MapKeys(lastMatch.members)) = 2
    /\ Cardinality(MapKeys(instances)) = 1

\* C5: a step that adds one identity n to a non-empty membership leaves every
\* key's Match result as it was or gives the key to n; a step that removes one
\* identity n and leaves a member changes no Match result of a key n did not own.
C5_MinimalDisruption ==
    [][\A n \in Nodes :
         /\ ( /\ ~MapHas(instances, n)
              /\ MapKeys(instances) # {}
              /\ MapKeys(instances') = MapKeys(instances) \cup {n} ) =>
                \A key \in Keys :
                    \/ MatchService(hash', instances', key).service.IPAddress = n
                    \/ MatchService(hash', instances', key)
                          = MatchService(hash, instances, key)
         /\ ( /\ MapHas(instances, n)
              /\ MapKeys(instances') # {}
              /\ MapKeys(instances') = MapKeys(instances) \ {n} ) =>
                \A key \in Keys :
                    MatchService(hash, instances, key).service.IPAddress # n =>
                        MatchService(hash', instances', key)
                            = MatchService(hash, instances, key)
      ]_vars

\* a key matched on a membership of two, whose owner is now the identity
\* registered since
C5_Witness ==
    /\ lastMatch.key # -1
    /\ Cardinality(MapKeys(lastMatch.members)) = 2
    /\ \E n \in Nodes :
          /\ ~MapHas(lastMatch.members, n)
          /\ MapKeys(instances) = MapKeys(lastMatch.members) \cup {n}
          /\ MatchService(hash, instances, lastMatch.key).service.IPAddress = n
          /\ lastMatch.res.service.IPAddress # n

\* C6: whenever the registry holds the members (and metadata) it held at the
\* latest MatchService call, however it got there, MatchService of that key
\* returns what that call returned.
C6_Deterministic ==
    (lastMatch.key # -1 /\ lastMatch.members = instances) =>
        MatchService(hash, instances, lastMatch.key) = lastMatch.res

\* a successful call on a full membership that is still the membership
C6_Witness ==
    /\ lastMatch.key # -1
    /\ lastMatch.members = instances
    /\ MapKeys(instances) = Nodes
    /\ lastMatch.res.err = NoErr

\* C7: a RegisterService or DeregisterService call that repeats the previous
\* call (same operation, same argument) leaves ring, map and every Match result
\* as the first call left them, and so does a DeregisterService of an identity
\* that is in neither structure.
C7_Idempotent ==
    (effect.repeated \/ effect.absent) => effect.unchanged

\* a repeated Register of a member, on a registry of two members
C7_Witness ==
    /\ effect.repeated
    /\ effect.unchanged
    /\ lastCall.op = "register"
    /\ Cardinality(MapKeys(instances)) = 2

\* C2: whenever no RegisterService/DeregisterService call of any caller is in
\* progress, the identities on the ring are the keys of the metadata map.
C2_SteadyState ==
    (\A w \in Writers : CallIdle(w)) => RingIdentities(hash) = MapKeys(instances)

\* C1: in one reconciliation pass, with A the identities GetAllServices
\* returned and B the identities observed, RegisterService is called at most
\* once per identity and only for B \ A, DeregisterService at most once and
\* only for A \ B, the entries of A \cap B keep the metadata they had; when the
\* pass has returned, each identity of B \ A was registered exactly once, each
\* of A \ B deregistered exactly once, and ring and map hold exactly B.
C1_DiffCorrect ==
    /\ \A ip \in Nodes :
          /\ pass.reg[ip] <= (IF ip \in pass.B \ pass.A THEN 1 ELSE 0)
          /\ pass.dereg[ip] <= (IF ip \in pass.A \ pass.B THEN 1 ELSE 0)
          /\ (ip \in pass.A \cap pass.B) => instances[ip] = pass.instances[ip]
    /\ pass.outcome = "ok" =>
          /\ \A ip \in Nodes :
                /\ pass.reg[ip] = (IF ip \in pass.B \ pass.A THEN 1 ELSE 0)
                /\ pass.dereg[ip] = (IF ip \in pass.A \ pass.B THEN 1 ELSE 0)
          /\ MapKeys(instances) = pass.B
          /\ RingIdentities(hash) = pass.B

\* a returned pass that registered one identity, deregistered another, or kept
\* one whose observed metadata differs from the stored one
C1_Witness ==
    /\ pass.outcome = "ok"
    /\ \E ip \in pass.A \cap pass.B :
          instances[ip] # NewSetAt(available, ip)
    /\ \E ip \in Nodes : pass.reg[ip] = 1

\* C8: once a ContainerList or ContainerInspect call of a pass has failed, the
\* pass has returned the error, it has made no RegisterService or
\* DeregisterService call, ring and map are as they were when it began, and the
\* listener has not returned unless ctx is cancelled.
C8_FailureLeavesRegistry ==
    pass.failed =>
        /\ pass.outcome = "error"
        /\ wpc \in {"subscribe", "select", "returned"}
        /\ pass.reg = ZeroCalls
        /\ pass.dereg = ZeroCalls
        /\ hash = pass.hash
        /\ instances = pass.instances
        /\ CallIdle(Registrar)
        /\ (wpc = "returned" => cancelled)

\* an event-triggered pass whose second ContainerInspect failed, with the
\* registry out of date and the listener back in its loop
C8_Witness ==
    /\ pass.failed
    /\ pass.kind = "event"
    /\ Len(available) = 1
    /\ MapKeys(instances) # LiveSet
    /\ wpc = "select"
    /\ ~cancelled

\* C10: if ctx is never cancelled and no pass ever fails, then from some point
\* on ring and map hold exactly the identities of the running, fully configured
\* containers.
C10_Converges ==
    ([]~cancelled /\ [](pass.outcome # "error")) =>
        <>[](MapKeys(instances) = LiveSet /\ RingIdentities(hash) = LiveSet)

\* C3 as amended: every MatchService attempt that found the ring empty failed,
\* every attempt whose ring owner had no map entry failed, each failure is a
\* plain error that is not of the NotFoundError kind, every other attempt
\* returned exactly the entry stored under the ring owner's identity, and no
\* step of a resolve changes ring or map.
C3_MatchFailure ==
    /\ [](\A i \in DOMAIN rd.tries :
            LET t == rd.tries[i]
            IN  /\ t.ringEmpty =>
                      /\ t.res = MatchNoOwner
                      /\ t.res.err.type = "errorString"
                /\ (~t.ringEmpty /\ t.entry = Absent) =>
                      /\ t.res.err # NoErr
                      /\ t.res.err.type = "errorString"
                      /\ t.res.service = EmptyService
                /\ (~t.ringEmpty /\ t.entry # Absent) =>
                      /\ t.res.err = NoErr
                      /\ t.serviceIP # NoNode
                      /\ t.res.service = t.entry
                      /\ t.res.service.IPAddress = t.serviceIP
                /\ t.res.err # NoErr => ~ErrorsIsNotFound(t.res.err))
    /\ [][rd' # rd => UNCHANGED regVars]_vars

\* an attempt that found its ring owner without a map entry while the map held
\* another member
C3_Witness ==
    \E i \in DOMAIN rd.tries :
        /\ ~rd.tries[i].ringEmpty
        /\ rd.tries[i].entry = Absent
        /\ rd.tries[i].res.err = ErrCouldNotFind
        /\ MapKeys(instances) # {}

\* C3 as claimed: every failed MatchService attempt fails with an error of the
\* NotFoundError kind.
C3_NotFoundKind ==
    \A i \in DOMAIN rd.tries :
        rd.tries[i].res.err # NoErr => ErrorsIsNotFound(rd.tries[i].res.err)

\* C9: a resolve makes at most 3 MatchService attempts; every attempt but the
\* last one failed; it ends without error exactly when its last attempt
\* succeeded, and then holds that attempt's metadata; it ends with an error only
\* after 3 failed attempts; an attempt during which the registry stayed
\* consistent and non-empty succeeds; and every started resolve ends.
C9_BoundedRetry ==
    /\ [](/\ Len(rd.tries) <= MaxAttempts
          /\ \A i \in DOMAIN rd.tries :
                /\ i < Len(rd.tries) => rd.tries[i].res.err # NoErr
                /\ rd.tries[i].quiet => rd.tries[i].res.err = NoErr
          /\ rd.pc \in {"get", "lookup"} =>
                /\ Len(rd.tries) < MaxAttempts
                /\ \A i \in DOMAIN rd.tries : rd.tries[i].res.err # NoErr
          /\ rd.pc = "done" =>
                /\ rd.tries # <<>>
                /\ rd.err = NoErr =>
                      /\ rd.tries[Len(rd.tries)].res.err = NoErr
                      /\ rd.instance = rd.tries[Len(rd.tries)].res.service
                      /\ rd.instance # EmptyService
                /\ rd.err # NoErr =>
                      /\ Len(rd.tries) = MaxAttempts
                      /\ \A i \in DOMAIN rd.tries : rd.tries[i].res.err # NoErr)
    /\ (rd.pc = "get") ~> (rd.pc = "done")

\* a resolve whose first attempt found its ring owner without metadata, whose
\* second found the ring empty, and whose third and last succeeded
C9_Witness ==
    /\ rd.pc = "done"
    /\ rd.err = NoErr
    /\ Len(rd.tries) = MaxAttempts
    /\ rd.tries[1].res.err = ErrCouldNotFind
    /\ rd.tries[2].res.err = ErrCouldNotMatch
    /\ rd.instance.IPAddress \in Nodes

\* C11: ListenForDockerEvents runs exactly one reconciliation pass, the initial
\* one, before it subscribes to or receives any event, whether that pass ends
\* well or fails; it then reaches the event loop, and it returns only once ctx
\* is cancelled.
C11_StartOrdering ==
    /\ [](/\ wpc = "start" =>
                pass = NoPass /\ ~connected /\ queue = <<>> /\ handled = NoEvent
          /\ (wpc \in {"list", "inspect", "update"} /\ after = "subscribe") =>
                /\ pass.kind = "initial"
                /\ pass.outcome = "running"
                /\ ~connected /\ queue = <<>> /\ handled = NoEvent
          /\ wpc \in {"subscribe", "select", "returned"} =>
                /\ pass.kind \in {"initial", "event"}
                /\ pass.outcome \in {"ok", "error"}
          /\ (connected \/ queue # <<>> \/ handled # NoEvent) =>
                wpc # "start" /\ after \in {"subscribe", "select"}
          /\ pass.kind = "event" => after = "select"
          /\ wpc = "returned" => cancelled)
    /\ [][/\ pass'.kind = "initial" /\ pass.kind # "initial" => wpc = "start"
          /\ pass.kind = "event" => pass'.kind = "event"
          /\ wpc # "start" => wpc' # "start"
          /\ after = "select" => after' = "select"
          /\ wpc = "returned" => wpc' = "returned"]_vars
    /\ <>(wpc = "select")

\* the initial pass failed and the watcher is in its event loop, subscribed
C11_Witness ==
    /\ pass.kind = "initial"
    /\ pass.failed
    /\ ~cancelled
    /\ wpc = "select"
    /\ connected

\* C12: a stream error received while ctx is not cancelled sends the watcher to
\* a new subscription, never to its return; the new subscription is fed again,
\* and its lifecycle events start reconciliation passes, after one stream error
\* and after a second one.
C12_Reconnect ==
    /\ [][/\ (~cancelled' /\ wpc = "select" /\ queue # <<>> /\ Head(queue) = StreamErr
                 /\ wpc' # wpc) =>
                /\ wpc' = "subscribe"
                /\ ~connected'
          /\ (~cancelled /\ wpc = "subscribe" /\ wpc' # wpc) =>
                /\ wpc' = "select"
                /\ connected'
                /\ queue' = <<>>
          /\ ~cancelled' => wpc' # "returned"]_vars
    /\ [](/\ (wpc = "subscribe" /\ ~cancelled) => ENABLED WSubscribe
          /\ (wpc = "select" /\ queue # <<>> /\ Head(queue) # StreamErr) =>
                ENABLED WSelectEvent)
    /\ (wpc = "select" /\ queue # <<>> /\ Head(queue) = StreamErr)
          ~> (cancelled \/ (wpc = "select" /\ connected))
    /\ (wpc = "select" /\ queue # <<>> /\ Head(queue) \in RefreshActions)
          ~> (cancelled \/ (handled = "refresh" /\ pass.kind = "event"))

\* after two stream errors the third subscription has delivered a lifecycle
\* event and its pass has ended well
C12_Witness ==
    /\ faults.stream = 0
    /\ ~cancelled
    /\ connected
    /\ handled = "refresh"
    /\ pass.kind = "event"
    /\ pass.outcome = "ok"
    /\ wpc = "select"

\* C13: once ctx is cancelled the watcher starts no reconciliation pass for a
\* received event, does not subscribe again after a stream error, changes the
\* registry in neither case, and eventually returns.
C13_Cancellation ==
    /\ [][cancelled =>
            /\ ~(wpc = "select" /\ wpc' = "list")
            /\ ~(wpc = "select" /\ wpc' = "subscribe")
            /\ wpc \in {"select", "subscribe"} => UNCHANGED regVars]_vars
    /\ cancelled ~> (wpc = "returned")

\* C14: a received event starts a reconciliation pass exactly when its action is
\* one of create, destroy, start, stop, kill, pause, unpause, restart, die; an
\* event of any other action leaves the watcher at its select with no list or
\* inspect call made, and leaves ring, map and the pass record as they were.
C14_EventFilter ==
    /\ [][(wpc = "select" /\ queue # <<>> /\ Head(queue) # StreamErr
             /\ queue' = Tail(queue) /\ wpc' \in {"select", "list"}) =>
            LET triggers == Head(queue) \in
                    {"create", "destroy", "start", "stop", "kill",
                     "pause", "unpause", "restart", "die"}
            IN  /\ triggers <=> (wpc' = "list" /\ pass' = BeginPass("event"))
                /\ ~triggers =>
                      /\ wpc' = "select"
                      /\ UNCHANGED <<regVars, call, pass, listed, available,
                                     toRegister, toDeregister>>
                /\ handled' = IF triggers THEN "refresh" ELSE "ignore"]_vars
    /\ [](wpc \in {"list", "inspect", "update"} /\ after = "select" =>
             /\ handled = "refresh"
             /\ pass.kind = "event")

\* an event of another action was received and no pass followed it
C14_Witness ==
    /\ handled = "ignore"
    /\ wpc = "select"
    /\ pass.kind = "initial"
    /\ pass.outcome = "ok"

\* C18: with the registrar as the only writer, the identities on the ring and
\* the keys of the metadata map differ in at most one identity in every state,
\* and are equal whenever no RegisterService/DeregisterService call is in
\* progress, so also whenever a reconciliation pass has ended.
C18_SingleWriter ==
    LET ringOnly == RingIdentities(hash) \ MapKeys(instances)
        mapOnly == MapKeys(instances) \ RingIdentities(hash)
    IN  /\ \A w \in Callers : CallIdle(w)
        /\ Cardinality(ringOnly \cup mapOnly) <= 1
        /\ CallIdle(Registrar) => RingIdentities(hash) = MapKeys(instances)
        /\ ~CallIdle(Registrar) =>
              ringOnly \cup mapOnly \subseteq {call[Registrar].service.IPAddress}
        /\ pass.outcome \in {"ok", "error"} => RingIdentities(hash) = MapKeys(instances)

\* a pass is inside DeregisterService: the identity has left the map and is
\* still on the ring, next to another member
C18_Witness ==
    /\ call[Registrar].pc = "dereg_ring"
    /\ RingIdentities(hash) \ MapKeys(instances) = {call[Registrar].service.IPAddress}
    /\ MapKeys(instances) # {}
    /\ pass.kind = "event"

\* C19: under the single writer, a MatchService call that overlaps no
\* DeregisterService call and finds the ring non-empty never fails, also when a
\* RegisterService call is in progress, and returns the complete metadata stored
\* under the ring owner; a call whose ring owner has no metadata overlapped a
\* DeregisterService of that owner; and a ring identity lacks its metadata only
\* while a DeregisterService of it is between map removal and ring removal.
C19_RegisterNoWindow ==
    /\ ms.pc = "done" =>
          /\ (ms.overlap.dereg = {} /\ ~ms.ringEmpty) =>
                /\ ms.res.err = NoErr
                /\ ms.res.service = ms.entry
                /\ ms.res.service \in AllMetadata
                /\ ms.res.service.IPAddress = ms.serviceIP
          /\ (~ms.ringEmpty /\ ms.res.err # NoErr) =>
                /\ ms.res = MatchResult(EmptyService, ErrCouldNotFind)
                /\ ms.entry = Absent
                /\ ms.serviceIP \in ms.overlap.dereg
    /\ call[Registrar].pc \in {"reg_set", "reg_remove", "reg_add", "idle", "dereg_map"} =>
          RingIdentities(hash) \subseteq MapKeys(instances)
    /\ ~(RingIdentities(hash) \subseteq MapKeys(instances)) =>
          /\ call[Registrar].pc = "dereg_ring"
          /\ RingIdentities(hash) \ MapKeys(instances) = {call[Registrar].service.IPAddress}

\* a call read the ring while a RegisterService call had written the map and
\* not yet the ring, overlapped no DeregisterService, and returned a member
C19_Witness ==
    /\ ms.pc = "done"
    /\ ms.overlap.reg
    /\ ms.overlap.dereg = {}
    /\ ~ms.ringEmpty
    /\ ms.res.err = NoErr
    /\ ms.res.service.IPAddress \in Nodes

\* C17: an id is accepted exactly when it has 1 to 32 characters, all letters
\* or digits (32 accepted, 33 rejected, the empty id rejected, a dash or
\* whitespace anywhere rejected); a request with a rejected id, GET or PUT, is
\* answered 400 after one validation, with no storage call, no resolve, no
\* MatchService attempt and no backend call, and changes no node.
C17_ValidationBoundary ==
    /\ [](LET Accepted(id) ==
                  /\ Len(id) >= 1
                  /\ Len(id) <= 32
                  /\ \A i \in 1..Len(id) : id[i] \in Letters \cup Digits
          IN  /\ \A id \in TestIDs \cup RequestIDs :
                    (ValidateID(id) = NoErr) <=> Accepted(id)
              /\ ValidateID(Rep(1, 32)) = NoErr
              /\ ValidateID(Rep(1, 33)) # NoErr
              /\ ValidateID(<<>>) # NoErr
              /\ \A c \in {Dash, Space, Newline} :
                    /\ ValidateID(<<c>>) # NoErr
                    /\ ValidateID(<<1, c>>) # NoErr
                    /\ ValidateID(<<c, 1>>) # NoErr
              /\ \A r \in Requests :
                    req[r].pc # "idle" =>
                       /\ req[r].calls.validate = 1
                       /\ Accepted(req[r].id) => req[r].status # 400
                       /\ ~Accepted(req[r].id) =>
                             /\ req[r].pc = "done"
                             /\ req[r].status = 400
                             /\ req[r].calls.storage = 0
                             /\ req[r].calls.resolve = 0
                             /\ req[r].calls.backend = <<>>
                             /\ req[r].node = NoNode)
    /\ [][\A r \in Requests :
            (req[r].pc = "idle" /\ req'[r].status = 400) =>
                UNCHANGED <<minio, lastPut, regVars, bfaults>>]_vars

\* a PUT with an id of 33 characters was answered 400 beside a PUT with an id
\* of 32 characters that was answered 200
C17_Witness ==
    \E r, q \in Requests :
        /\ req[r].pc = "done" /\ req[r].method = "PUT" /\ Len(req[r].id) = 33
        /\ req[r].status = 400
        /\ req[q].pc = "done" /\ req[q].method = "PUT" /\ Len(req[q].id) = 32
        /\ req[q].status = 200

\* C16: a GET whose node reports the object missing ends with NotFoundError
\* and 404; every other failure of a GET (no instance after the retries, also
\* with an empty registry, or another failure of the backend call) ends with
\* an error that is not NotFoundError and 500; every failure of a PUT, at the
\* body read, the resolve, the bucket check, the bucket creation or the object
\* write, ends with 500; and 200 is answered only when the storage call
\* returned without error.
C16_OutcomeMapping ==
    /\ [](\A r \in Requests :
            req[r].pc = "done" =>
               /\ req[r].status \in {200, 400, 404, 500}
               /\ req[r].status = 200 =>
                     /\ req[r].err = NoErr
                     /\ req[r].resp = NoRespErr
                     /\ ~req[r].faulted
                     /\ req[r].calls.storage = 1
               /\ req[r].status = 404 =>
                     /\ req[r].method = "GET"
                     /\ req[r].err = NotFoundError
                     /\ req[r].resp.type = "minio.ErrorResponse"
                     /\ req[r].resp.status = 404
                     /\ ~req[r].faulted
               /\ req[r].status = 500 =>
                     /\ req[r].err # NoErr
                     /\ req[r].err.type # "NotFoundError"
                     /\ req[r].err.wraps # "NotFoundError"
               /\ (req[r].status # 400 /\ req[r].err # NoErr /\ req[r].method = "PUT") =>
                     req[r].status = 500
               /\ (req[r].status # 400 /\ req[r].faulted) => req[r].status = 500
               /\ (req[r].calls.storage = 1 /\ req[r].node = NoNode) =>
                     /\ req[r].status = 500
                     /\ req[r].calls.resolve = MaxAttempts
                     /\ req[r].calls.backend = <<>>)
    /\ [][\A r \in Requests :
            LET node == req[r].node
                key == <<req[r].bucket, req[r].id>>
                missing == \/ req[r].bucket \notin minio[node].buckets
                           \/ minio[node].objects[key] = NoObject
            IN  /\ (req[r].pc = "read" /\ req'[r].pc = "done") =>
                      /\ req'[r].status = 404 <=> (bfaults' = bfaults /\ missing)
                      /\ req'[r].status = 200 <=> (bfaults' = bfaults /\ ~missing)
                      /\ req'[r].status = 500 <=> bfaults' # bfaults
                /\ (req[r].pc = "resolve" /\ req'[r] # req[r] /\ MapKeys(instances) = {}) =>
                      req'[r].pc = "done" /\ req'[r].status = 500
                /\ (req[r].pc \in {"exists", "make", "put"} /\ req'[r] # req[r]
                                                              /\ bfaults' # bfaults) =>
                      req'[r].pc = "done" /\ req'[r].status = 500]_vars

\* a GET answered 404 for a missing object beside a GET answered 500 for an
\* error response of the node that is not a 404
C16_Witness ==
    \E r, q \in Requests :
        /\ req[r].pc = "done" /\ req[r].method = "GET" /\ req[r].status = 404
        /\ req[r].err = NotFoundError
        /\ req[q].pc = "done" /\ req[q].method = "GET" /\ req[q].status = 500
        /\ req[q].resp = ErrorResponse(503, "SlowDown")

\* C15: with a stable node set and no backend failure, a GET of a bucket and
\* id for which a PUT has succeeded is answered 200 with exactly the value of
\* the latest successful PUT, read from the node that PUT wrote to; a GET of a
\* bucket and id never put is answered 404; and requests with the same id
\* resolve to the same node.
C15_RoundTrip ==
    /\ [](\A r, q \in Requests :
            /\ (req[r].pc = "done" /\ req[r].method = "GET" /\ req[r].status = 200) =>
                  req[r].data \in Values
            /\ (req[r].id = req[q].id /\ req[r].node # NoNode /\ req[q].node # NoNode) =>
                  req[r].node = req[q].node)
    /\ [][\A r \in Requests :
            (req[r].pc = "read" /\ req'[r].pc = "done" /\ bfaults' = MaxBackendFaults) =>
                LET last == lastPut[<<req[r].bucket, req[r].id>>]
                IN  IF last = NoPut
                    THEN req'[r].status = 404
                    ELSE /\ req'[r].status = 200
                         /\ req'[r].data = last.data
                         /\ req'[r].node = last.node]_vars

\* no backend failure; a PUT of the first value was answered 200, a later PUT
\* of the second value to the same bucket and id has returned, and the GET that
\* followed was answered 200 with the second value
C15_Witness ==
    \E r, q \in Requests :
        /\ bfaults = MaxBackendFaults
        /\ nreq = 3
        /\ req[q].pc = "done" /\ req[q].method = "PUT" /\ req[q].status = 200
        /\ req[q].body = 1
        /\ req[r].pc = "done" /\ req[r].method = "GET" /\ req[r].status = 200
        /\ req[r].id = req[q].id /\ req[r].bucket = req[q].bucket
        /\ req[r].bucket = NumBuckets
        /\ req[r].data = 2
        /\ lastPut[<<req[r].bucket, req[r].id>>] = [data |-> 2, node |-> req[r].node]

\* C20: PutObject writes the object only after the bucket check has succeeded
\* and, for an absent bucket, the bucket was created; and with no backend
\* failure and a stable, non-empty node set every PutObject succeeds and leaves
\* the bucket existing and the object stored on the resolved node, also when
\* several PutObject calls for the same new bucket on the same node interleave.
C20_PutEnsuresBucket ==
    \A r \in Requests :
        LET calls == req[r].calls.backend
            node == req[r].node
        IN  /\ \A i \in DOMAIN calls :
                  calls[i] = "PutObject" =>
                     /\ i > 1
                     /\ calls[1] = "BucketExists"
                     /\ req[r].exists \/ (i = 3 /\ calls[2] = "MakeBucket")
            /\ (/\ req[r].pc = "done"
                /\ req[r].method = "PUT"
                /\ req[r].calls.storage = 1
                /\ node # NoNode
                /\ bfaults = MaxBackendFaults) =>
                  /\ req[r].status = 200
                  /\ req[r].err = NoErr
                  /\ req[r].bucket \in minio[node].buckets
                  /\ minio[node].objects[<<req[r].bucket, req[r].id>>] # NoObject

\* C20, the ordering alone: the object write comes after the bucket check and,
\* for an absent bucket, after the bucket creation
C20_Ordering ==
    \A r \in Requests :
        LET calls == req[r].calls.backend
        IN  \A i \in DOMAIN calls :
                calls[i] = "PutObject" =>
                   /\ i > 1
                   /\ calls[1] = "BucketExists"
                   /\ req[r].exists \/ (i = 3 /\ calls[2] = "MakeBucket")

\* C20, the interleaving: no backend failure, and a PUT failed at the bucket
\* creation because another PUT had created the bucket after this one's check
C20_Race ==
    \E r \in Requests :
        /\ bfaults = MaxBackendFaults
        /\ req[r].pc = "done" /\ req[r].method = "PUT" /\ req[r].status = 500
        /\ ~req[r].exists
        /\ req[r].calls.backend = <<"BucketExists", "MakeBucket">>
        /\ req[r].resp = ErrorResponse(409, "BucketAlreadyOwnedByYou")
        /\ req[r].bucket \in minio[req[r].node].buckets

====
